---- MODULE Spec2Model ----
(***************************************************************************)
(* A model of the revision/transaction engine of django-versions           *)
(* (versions/base.py): the per-thread RevisionState, the RevisionManager   *)
(* operations start / invalidate / finish / stage, the repository cache,   *)
(* the two transaction-scope wrappers (with-block and commit_on_success),  *)
(* and the backend repository's commit log.                                *)
(***************************************************************************)
EXTENDS Integers, Sequences, FiniteSets, TLC

----------------------------------------------------------------------------
(* Bounds of the model *)

\* deepest nesting of start() explored
MaxDepth == 2
\* most commits recorded over all repositories
MaxCommits == 2
\* deepest nesting of scope wrappers explored
MaxScopes == 2

----------------------------------------------------------------------------
(* Python values *)

None == "None"

\* an empty dict
EmptyMap == [x \in {} |-> x]

\* d[k] = v on a dict
Put(d, k, v) == [x \in (DOMAIN d) \cup {k} |-> IF x = k THEN v ELSE d[x]]

\* return values: None, a Version, or a dict of repository name -> Version
RetNone == [kind |-> "None"]
RetVersion(v) == [kind |-> "Version", version |-> v]
RetDict(d) == [kind |-> "dict", items |-> d]

\* names bound in the namespace of module versions.base
ModuleGlobals ==
    { "defaultdict", "datetime", "difflib", "logging", "os", "threading", "time",
      "pickle", "wraps", "settings", "AnonymousUser", "User",
      "ImproperlyConfigured", "related", "VersionDoesNotExist",
      "VersionsMultipleParents", "load_backend", "RevisionState",
      "RevisionManager", "Version", "revision" }

\* `raise Name(...)`: the name is looked up when the statement runs; a name the
\* module does not bind raises NameError instead
Raise(name) == IF name \in ModuleGlobals THEN name ELSE "NameError"

\* exceptions a scoped block (user code) may raise by itself
BlockExceptions == {"ValueError", "KeyError"}

----------------------------------------------------------------------------
(* Configuration and record types *)

\* settings.VERSIONS_REPOSITORIES: "default" and "other" are complete,
\* "broken" lacks 'local'; any other name is not configured
VERSIONS_REPOSITORIES ==
    [default |-> {"backend", "local"},
     other |-> {"backend", "local", "remote"},
     broken |-> {"backend"}]

\* repository names the record types use
RepoNames == {"default", "other"}

\* names __getitem__ is asked for
RepoKeys == RepoNames \cup {"broken", "missing"}

\* the versioned record types and their _versions_options
Classes == {"Artist", "Venue"}

VersionsOptionsOf(cls) ==
    IF cls = "Artist"
    THEN [include |-> {}, exclude |-> {}, core_include |-> {"_versions_status"},
          repository |-> "default"]
    ELSE [include |-> {}, exclude |-> {}, core_include |-> {"_versions_status"},
          repository |-> "other"]

\* field values of the records
Names == {"n1", "n2"}

\* a record instance handed to stage()
Instance(c, p, n) ==
    [cls |-> c, pk |-> p,
     fields |-> [id |-> p, name |-> n, _versions_status |-> "PUBLISHED"]]

\* Artist 1 under both names, Artist 2 and Venue 1
Instances ==
    { Instance("Artist", 1, n) : n \in Names } \cup
    { Instance("Artist", 2, "n1"), Instance("Venue", 1, "n1") }

\* one Artist and one Venue
FewInstances == { Instance("Artist", 1, "n1"), Instance("Venue", 1, "n1") }

\* _meta.fields of every record type, with the primary key flagged
MetaFields == { [name |-> "id", primary_key |-> TRUE],
                [name |-> "name", primary_key |-> FALSE],
                [name |-> "_versions_status", primary_key |-> FALSE] }

----------------------------------------------------------------------------
(* State *)

VARIABLES
    state,    \* RevisionManager._state: the thread's RevisionState
    repos,    \* RevisionManager._repos: names with a cached repository handle
    log,      \* the backend: per repository, the sequence of commits made
    scopes,   \* the open scope wrappers, innermost last
    last,     \* the last call: [op, exc, ret, calls]
    txn,      \* what the open transaction has seen: [invalidated, staged]
    local,    \* per thread, the RevisionState the thread sees and its transaction
    registry, \* RevisionManager._repos as a dict, and the handles constructed
    calling,  \* per thread, the key of the __getitem__ call it is inside
    ver,      \* a Version object and what its properties returned
    rec,      \* a VersionsModel record held in memory
    db,       \* the database table of the record's class
    pure      \* a call of a method that only computes: its arguments and result

vars ==
    <<state, repos, log, scopes, last, txn, local, registry, calling, ver, rec, db, pure>>

\* what the operations of one thread on the transaction engine leave alone
ext == <<local, registry, calling, ver, rec, db, pure>>

----------------------------------------------------------------------------
(* RevisionState *)

\* RevisionState.reset: the defaults
reset ==
    [objects |-> EmptyMap, user |-> None, message |-> "", depth |-> 0,
     is_invalid |-> FALSE]

----------------------------------------------------------------------------
(* The backend repository (versions.backends, not part of base.py) *)

\* the revision identifier of the i-th commit of a repository
Rev(repo, i) == <<repo, i>>

\* Repository.commit(items): one new history node holding every listed item,
\* or StorageError with nothing recorded
Commit(lg, repo, items, fail) ==
    IF fail
    THEN [log |-> lg, exc |-> "StorageError", version |-> None]
    ELSE [log |-> [lg EXCEPT ![repo] = Append(@, items)],
          exc |-> None,
          version |-> [revision |-> Rev(repo, Len(lg[repo]) + 1)]]

\* Repository.versions(item): the revisions that recorded the item
Versions(lg, repo, item) ==
    { i \in 1..Len(lg[repo]) : item \in DOMAIN lg[repo][i] }

\* commits recorded over all repositories
TotalCommits(lg) == Len(lg["default"]) + Len(lg["other"])

\* the backend commit object of the i-th commit of a repository: every commit
\* is appended to the one before it, the first to the root (revision 0), and
\* the root has no parent
RepoCommit(repo, i) ==
    [hex |-> Rev(repo, i),
     parents |-> IF i = 0 THEN <<>> ELSE <<Rev(repo, i - 1)>>]

\* indices of a set of commits, most recent first
RECURSIVE Descending(_)
Descending(S) ==
    IF S = {} THEN <<>>
    ELSE LET m == CHOOSE x \in S : \A y \in S : y <= x
         IN <<m>> \o Descending(S \ {m})

\* Repository.versions(item): the commit objects that recorded the item,
\* most recent first
RepoVersions(lg, repo, item) ==
    LET idx == Descending(Versions(lg, repo, item))
    IN [n \in DOMAIN idx |-> RepoCommit(repo, idx[n])]

\* Repository.version(item, rev): the snapshot of the item written by the
\* latest commit at or before rev (the tip when rev is None) that holds it,
\* or VersionDoesNotExist when there is none
RepoVersion(lg, repo, item, rev) ==
    LET upto == IF rev = None THEN Len(lg[repo]) ELSE rev[2]
        held == { i \in Versions(lg, repo, item) : i <= upto }
    IN IF held = {}
       THEN [exc |-> "VersionDoesNotExist", blob |-> None]
       ELSE [exc |-> None,
             blob |-> lg[repo][CHOOSE i \in held : \A j \in held : j <= i][item]]

----------------------------------------------------------------------------
(* RevisionManager *)

\* is_active that takes the first level for no transaction
is_active_above_one(s) == s.depth > 1

\* is_active that takes depth 0 for a transaction
is_active_always(s) == s.depth >= 0

\* RevisionManager.is_active
is_active(s) == s.depth > 0

\* RevisionManager.assert_active: the exception raised, or None
assert_active(s) ==
    IF ~is_active(s) THEN Raise("VersionsManagementException") ELSE None

\* start that begins every level valid
start_clearing_invalid(s) == [s EXCEPT !.depth = @ + 1, !.is_invalid = FALSE]

\* RevisionManager.start
start(s) == [s EXCEPT !.depth = @ + 1]

\* invalidate without the check for an active revision
invalidate_unchecked(s) == [state |-> [s EXCEPT !.is_invalid = TRUE], exc |-> None]

\* RevisionManager.invalidate
invalidate(s) ==
    LET e == assert_active(s) IN
    IF e # None
    THEN [state |-> s, exc |-> e]
    ELSE [state |-> [s EXCEPT !.is_invalid = TRUE], exc |-> None]

\* RevisionManager.is_invalid
is_invalid(s) == s.is_invalid

\* RevisionManager.repository_path
repository_path(cls, pk) == VersionsOptionsOf(cls).repository

\* str.lower() on the names of the record types
lower(name) ==
    CASE name = "Artist" -> "artist"
      [] name = "Venue" -> "venue"
      [] OTHER -> name

\* str() on a primary key
str(pk) == CASE pk = 1 -> "1" [] pk = 2 -> "2" [] OTHER -> "n"

\* RevisionManager.item_path: os.path.join of the lower-cased module, the
\* lower-cased class name and str(pk), as the sequence of its components
item_path(cls, pk) == <<lower("versions.tests.models"), lower(cls), str(pk)>>

\* RevisionManager.__getitem__: the handle cache after the call and the
\* exception raised, if any
getitem(rp, key) ==
    IF key \notin rp
    THEN IF key \in DOMAIN VERSIONS_REPOSITORIES
         THEN LET configs == VERSIONS_REPOSITORIES[key] IN
              IF "backend" \notin configs \/ "local" \notin configs
              THEN [repos |-> rp, exc |-> Raise("ImproperlyConfigured")]
              ELSE [repos |-> rp \cup {key}, exc |-> None]
         ELSE [repos |-> rp, exc |-> "KeyError"]
    ELSE [repos |-> rp, exc |-> None]

\* dict.get(key, default)
Get(d, key, default) == IF key \in DOMAIN d THEN d[key] ELSE default

\* the selection of data() that leaves the core field out of an include list
field_names_without_core(fields, opts) ==
    LET names == { x.name : x \in { f \in fields : ~f.primary_key } } IN
    IF opts.include # {}
    THEN { x \in names : x \in opts.include }
    ELSE IF opts.exclude # {}
         THEN { x \in names : x \notin opts.exclude }
         ELSE names

\* base.py:105-110: the names of the fields that data() selects
field_names(fields, opts) ==
    LET names == { x.name : x \in { f \in fields : ~f.primary_key } } IN
    IF opts.include # {}
    THEN { x \in names : x \in opts.include \cup opts.core_include }
    ELSE IF opts.exclude # {}
         THEN { x \in names : x \notin opts.exclude }
         ELSE names

\* base.py:112: the entries of instance.__dict__ whose key is a selected name
field_data(dict, names) == [k \in DOMAIN dict \cap names |-> dict[k]]

\* the related ids with the added ones put in before the removed are taken out
related_items_adding_first(current, related_updates, name) ==
    (current \cup Get(Get(related_updates, "added", EmptyMap), name, {}))
        \ Get(Get(related_updates, "removed", EmptyMap), name, {})

\* base.py:126-128: the ids of a relation, less the removed, plus the added
related_items(current, related_updates, name) ==
    (current \ Get(Get(related_updates, "removed", EmptyMap), name, {}))
        \cup Get(Get(related_updates, "added", EmptyMap), name, {})

\* base.py:121-129: for every relation of the name map (a RelatedObject or a
\* ManyToManyField, given with the ids its manager returns), its ids
related_data(relations, related_updates) ==
    [name \in DOMAIN relations |-> related_items(relations[name], related_updates, name)]

\* RevisionManager.data on an instance given by its _meta.fields, its
\* _versions_options, its __dict__ and its relations
data_of(fields, opts, dict, relations, related_updates) ==
    [field |-> field_data(dict, field_names(fields, opts)),
     related |-> related_data(relations, related_updates)]

\* RevisionManager.data: the snapshot of an instance of a type without
\* relations, with no related_updates
data(instance) ==
    data_of(MetaFields, VersionsOptionsOf(instance.cls), instance.fields, EmptyMap,
            EmptyMap)

\* RevisionManager.serialize / deserialize: pickle
serialize(instance) == [pickle |-> data(instance)]

\* deserialize that hands the bytes back as they are
deserialize_nothing(blob) == blob

deserialize(blob) == blob.pickle

\* what version() returns
RetData(d) == [kind |-> "data", data |-> d]

\* RevisionManager._version that hands the backend's bytes on as they are
version_of_raw(rp, lg, cls, pk, rev) ==
    LET repo == repository_path(cls, pk)
        item == item_path(cls, pk)
        got == getitem(rp, repo)
    IN IF got.exc # None
       THEN [repos |-> got.repos, exc |-> got.exc, ret |-> RetNone]
       ELSE LET v == RepoVersion(lg, repo, item, rev) IN
            IF v.exc # None
            THEN [repos |-> got.repos, exc |-> v.exc, ret |-> RetNone]
            ELSE [repos |-> got.repos, exc |-> None, ret |-> RetData(v.blob)]

\* RevisionManager._version
version_of(rp, lg, cls, pk, rev) ==
    LET repo == repository_path(cls, pk)
        item == item_path(cls, pk)
        got == getitem(rp, repo)
    IN IF got.exc # None
       THEN [repos |-> got.repos, exc |-> got.exc, ret |-> RetNone]
       ELSE LET v == RepoVersion(lg, repo, item, rev) IN
            IF v.exc # None
            THEN [repos |-> got.repos, exc |-> v.exc, ret |-> RetNone]
            ELSE [repos |-> got.repos, exc |-> None,
                  ret |-> RetData(deserialize(v.blob))]

\* RevisionManager.version
version(rp, lg, instance, rev) == version_of(rp, lg, instance.cls, instance.pk, rev)

\* RevisionManager._versions, on a repository whose handle is cached
versions_of(lg, cls, pk) ==
    RepoVersions(lg, repository_path(cls, pk), item_path(cls, pk))

\* RevisionManager.versions
versions(lg, instance) == versions_of(lg, instance.cls, instance.pk)

\* the orders in which a dict may hand out its keys
Orders(d) ==
    { o \in [1..Cardinality(DOMAIN d) -> DOMAIN d] :
        \A i, j \in DOMAIN o : i # j => o[i] # o[j] }

\* finish's test for the end of the revision, passed one level early
at_end_of_revision_early(s) == s.depth <= 1

\* finish's test for the end of the revision
at_end_of_revision(s) == s.depth = 0

\* finish's test for flushing, without the invalid flag
should_flush_when_invalid(s) == s.objects # EmptyMap

\* finish's test for flushing: `objects and not self.is_invalid()`
should_flush(s) == s.objects # EmptyMap /\ ~is_invalid(s)

\* the state after finish's flush, reset only when the flush raised nothing
after_flush_without_finally(s, exc) == IF exc = None THEN reset ELSE s

\* the state after finish's try/finally: reset, whatever the flush raised
after_flush(s, exc) == reset

\* the loop of finish that returns after the first repository
flush_first_only(objects, order, fails, i, acc) ==
    IF order = <<>>
    THEN acc
    ELSE LET repo == order[1]
             g == getitem(acc.repos, repo)
             c == Commit(acc.log, repo, objects[repo], repo \in fails)
             called == Append(acc.calls, [repo |-> repo, items |-> objects[repo]])
         IN IF g.exc # None
            THEN [acc EXCEPT !.exc = g.exc]
            ELSE IF c.exc # None
                 THEN [acc EXCEPT !.repos = g.repos, !.calls = called, !.exc = c.exc]
                 ELSE [repos |-> g.repos, log |-> c.log,
                       revisions |-> Put(acc.revisions, repo, c.version),
                       calls |-> called, exc |-> None]

\* the loop of finish that goes on to the next repository after a commit raised
RECURSIVE flush_continuing(_, _, _, _, _)
flush_continuing(objects, order, fails, i, acc) ==
    IF i > Len(order)
    THEN acc
    ELSE LET repo == order[i]
             g == getitem(acc.repos, repo)
             c == Commit(acc.log, repo, objects[repo], repo \in fails)
             called == Append(acc.calls, [repo |-> repo, items |-> objects[repo]])
         IN IF g.exc # None
            THEN [acc EXCEPT !.exc = g.exc]
            ELSE IF c.exc # None
                 THEN flush_continuing(objects, order, fails, i + 1,
                                       [acc EXCEPT !.repos = g.repos, !.calls = called,
                                                   !.exc = c.exc])
                 ELSE flush_continuing(objects, order, fails, i + 1,
                                       [repos |-> g.repos, log |-> c.log,
                                        revisions |-> Put(acc.revisions, repo, c.version),
                                        calls |-> called, exc |-> acc.exc])

\* the loop of finish over objects.items(), from position i of the order:
\* acc is [repos, log, revisions, calls, exc]; the first exception ends it
RECURSIVE flush(_, _, _, _, _)
flush(objects, order, fails, i, acc) ==
    IF i > Len(order)
    THEN acc
    ELSE LET repo == order[i]
             g == getitem(acc.repos, repo)
             c == Commit(acc.log, repo, objects[repo], repo \in fails)
             called == Append(acc.calls, [repo |-> repo, items |-> objects[repo]])
         IN IF g.exc # None
            THEN [acc EXCEPT !.exc = g.exc]
            ELSE IF c.exc # None
                 THEN [acc EXCEPT !.repos = g.repos, !.calls = called, !.exc = c.exc]
                 ELSE flush(objects, order, fails, i + 1,
                            [repos |-> g.repos, log |-> c.log,
                             revisions |-> Put(acc.revisions, repo, c.version),
                             calls |-> called, exc |-> None])

\* RevisionManager.finish: order is the key order of objects.items(), fails
\* the repositories whose commit raises
finish(s, rp, lg, order, fails) ==
    LET e == assert_active(s)
        s1 == [s EXCEPT !.depth = @ - 1]
        acc0 == [repos |-> rp, log |-> lg, revisions |-> EmptyMap,
                 calls |-> <<>>, exc |-> None]
        objects == s1.objects
        acc == IF should_flush(s1)
               THEN flush(objects, order, fails, 1, acc0)
               ELSE acc0
    IN IF e # None
       THEN [state |-> s, repos |-> rp, log |-> lg, exc |-> e, ret |-> RetNone,
             calls |-> <<>>]
       ELSE IF at_end_of_revision(s1)
            THEN [state |-> after_flush(s1, acc.exc), repos |-> acc.repos, log |-> acc.log,
                  exc |-> acc.exc,
                  ret |-> IF acc.exc = None THEN RetDict(acc.revisions) ELSE RetNone,
                  calls |-> acc.calls]
            ELSE [state |-> s1, repos |-> rp, log |-> lg, exc |-> None,
                  ret |-> RetDict(EmptyMap), calls |-> <<>>]

\* stage's write to the buffer that keeps an item already buffered
buffer_keep_first(objects, repo, item, blob) ==
    LET slot == IF repo \in DOMAIN objects THEN objects[repo] ELSE EmptyMap
    IN Put(objects, repo, IF item \in DOMAIN slot THEN slot ELSE Put(slot, item, blob))

\* stage's write to the buffer, objects[repo][item] = data on a
\* defaultdict(dict)
buffer(objects, repo, item, blob) ==
    LET slot == IF repo \in DOMAIN objects THEN objects[repo] ELSE EmptyMap
    IN Put(objects, repo, Put(slot, item, blob))

\* stage that puts the state back to its defaults after its own commit
stage_resetting(s, rp, lg, instance, fail) ==
    LET repo == repository_path(instance.cls, instance.pk)
        item == item_path(instance.cls, instance.pk)
        blob == serialize(instance)
        g == getitem(rp, repo)
        c == Commit(lg, repo, Put(EmptyMap, item, blob), fail)
        call == <<[repo |-> repo, items |-> Put(EmptyMap, item, blob)]>>
    IN IF is_active(s)
       THEN [state |-> [s EXCEPT !.objects = buffer(@, repo, item, blob)],
             repos |-> rp, log |-> lg, exc |-> None, ret |-> RetNone,
             calls |-> <<>>]
       ELSE IF g.exc # None
            THEN [state |-> s, repos |-> rp, log |-> lg, exc |-> g.exc,
                  ret |-> RetNone, calls |-> <<>>]
            ELSE [state |-> reset, repos |-> g.repos, log |-> c.log, exc |-> c.exc,
                  ret |-> IF c.exc = None THEN RetVersion(c.version) ELSE RetNone,
                  calls |-> call]

\* RevisionManager.stage: fail says whether a commit made here raises
stage(s, rp, lg, instance, fail) ==
    LET repo == repository_path(instance.cls, instance.pk)
        item == item_path(instance.cls, instance.pk)
        blob == serialize(instance)
        g == getitem(rp, repo)
        c == Commit(lg, repo, Put(EmptyMap, item, blob), fail)
        call == <<[repo |-> repo, items |-> Put(EmptyMap, item, blob)]>>
    IN IF is_active(s)
       THEN [state |-> [s EXCEPT !.objects = buffer(@, repo, item, blob)],
             repos |-> rp, log |-> lg, exc |-> None, ret |-> RetNone,
             calls |-> <<>>]
       ELSE IF g.exc # None
            THEN [state |-> s, repos |-> rp, log |-> lg, exc |-> g.exc,
                  ret |-> RetNone, calls |-> <<>>]
            ELSE IF c.exc # None
                 THEN [state |-> s, repos |-> g.repos, log |-> lg, exc |-> c.exc,
                       ret |-> RetNone, calls |-> call]
                 ELSE [state |-> s, repos |-> g.repos, log |-> c.log, exc |-> None,
                       ret |-> RetVersion(c.version), calls |-> call]

\* the users table (django.contrib.auth): primary key -> user
UsersByPk == [x \in {1} |-> "alice"]

\* values handed to the user setter
UserVals ==
    { [type |-> "NoneType"], [type |-> "AnonymousUser"],
      [type |-> "User", name |-> "alice"],
      [type |-> "int", pk |-> 1], [type |-> "int", pk |-> 2], [type |-> "str"] }

\* RevisionManager._set_user
set_user(s, val) ==
    [s EXCEPT !.user =
        IF val.type = "NoneType" THEN "AnonymousUser"
        ELSE IF val.type = "AnonymousUser" THEN "AnonymousUser"
        ELSE IF val.type = "User" THEN val.name
        ELSE IF val.type = "int"
             THEN IF val.pk \in DOMAIN UsersByPk THEN UsersByPk[val.pk]
                  ELSE "AnonymousUser"
             ELSE "AnonymousUser"]

\* RevisionManager._get_user
get_user(s) == IF s.user = None THEN "AnonymousUser" ELSE s.user

\* RevisionManager._set_message
set_message(s, val) == [s EXCEPT !.message = val]

\* RevisionManager._get_message
get_message(s) ==
    IF s.message = "" THEN "There was no commit message specified." ELSE s.message

\* RevisionManager.__enter__
enter(s) == start(s)

\* __exit__ that goes straight to finish()
exit_without_invalidate(s, rp, lg, exc_type, order, fails) ==
    LET f == finish(s, rp, lg, order, fails)
    IN [state |-> f.state, repos |-> f.repos, log |-> f.log,
        exc |-> IF f.exc # None THEN f.exc ELSE exc_type,
        ret |-> RetNone, calls |-> f.calls, finishes |-> 1]

\* RevisionManager.__exit__ and the with statement around it: exc_type is
\* the exception the block raised, or None; __exit__ returns False, so the
\* block's exception goes on to the caller unless __exit__ itself raised
exit(s, rp, lg, exc_type, order, fails) ==
    LET inv == IF exc_type # None THEN invalidate(s) ELSE [state |-> s, exc |-> None]
        f == finish(inv.state, rp, lg, order, fails)
    IN IF inv.exc # None
       THEN [state |-> inv.state, repos |-> rp, log |-> lg, exc |-> inv.exc,
             ret |-> RetNone, calls |-> <<>>, finishes |-> 0]
       ELSE [state |-> f.state, repos |-> f.repos, log |-> f.log,
             exc |-> IF f.exc # None THEN f.exc ELSE exc_type,
             ret |-> RetNone, calls |-> f.calls, finishes |-> 1]

\* RevisionManager.commit_on_success, after the wrapped function ended:
\* raised is the exception func raised, or None
commit_on_success(s, rp, lg, raised, order, fails) ==
    LET inv == IF raised # None THEN invalidate(s) ELSE [state |-> s, exc |-> None]
        \* the exception on its way out of the inner try
        pending == IF raised = None THEN None
                   ELSE IF inv.exc # None THEN inv.exc ELSE raised
        f == finish(inv.state, rp, lg, order, fails)
    IN [state |-> f.state, repos |-> f.repos, log |-> f.log,
        exc |-> IF f.exc # None THEN f.exc ELSE pending,
        ret |-> IF f.exc = None /\ pending = None
                THEN [kind |-> "result"] ELSE RetNone,
        calls |-> f.calls, finishes |-> 1]

----------------------------------------------------------------------------
(* The record of the open transaction, kept beside the program's state *)

\* no transaction open
NoTxn ==
    [nest |-> 0, invalidated |-> FALSE, by |-> None, staged |-> EmptyMap,
     overwritten |-> {}]

\* a start() was called
TxnStart(t) == [t EXCEPT !.nest = @ + 1]

\* an invalidate() was called, by the caller named
TxnInvalidate(t, caller) ==
    IF t.nest > 0
    THEN [t EXCEPT !.invalidated = TRUE, !.by = IF @ = None THEN caller ELSE @]
    ELSE t

\* a stage(instance) was called: staged holds the snapshot of the latest call
\* for each item, overwritten the items staged before with another snapshot
TxnStage(t, instance) ==
    LET key == <<repository_path(instance.cls, instance.pk),
                 item_path(instance.cls, instance.pk)>>
    IN IF t.nest > 0
       THEN [t EXCEPT !.staged = Put(@, key, serialize(instance)),
                      !.overwritten =
                          IF key \in DOMAIN t.staged /\ t.staged[key] # serialize(instance)
                          THEN @ \cup {key} ELSE @]
       ELSE t

\* a finish() was called
TxnFinish(t) ==
    IF t.nest > 1 THEN [t EXCEPT !.nest = @ - 1] ELSE NoTxn

\* the repositories and the items of a repository a transaction staged
StagedRepos(t) == { k[1] : k \in DOMAIN t.staged }

StagedItems(t, repo) == { k[2] : k \in { x \in DOMAIN t.staged : x[1] = repo } }

\* the record of a call: its argument, what it raised or returned, the commit
\* calls it made, the finish() calls it made and, for a call that ends a
\* nesting level, the transaction as it was when the call began
Call(op, arg, r, finishes, closed) ==
    [op |-> op, arg |-> arg, exc |-> r.exc, ret |-> r.ret, calls |-> r.calls,
     finishes |-> finishes, closed |-> closed]

\* what a call that neither raises nor returns a value nor commits gives
Plain == [exc |-> None, ret |-> RetNone, calls |-> <<>>]

----------------------------------------------------------------------------
(* Threads: RevisionState is a threading.local, _repos and the backend are shared *)

Threads == {"t1", "t2"}

\* the records the threads work on: an Artist and a Venue, one per repository
ThreadInstances ==
    {Instance("Artist", 1, "n1"), Instance("Venue", 1, "n1")}

\* the attributes of the RevisionState as each thread first sees them: __init__
\* runs once in every thread
InitLocal == [t \in Threads |-> [state |-> reset, txn |-> NoTxn]]

\* the RevisionState of the first thread, read by every thread
state_of_first(l, t) == l["t1"].state

\* self._state as thread t reads it
state_of(l, t) == l[t].state

\* the attributes of one RevisionState shared by every thread
set_state_shared(l, t, s) == [u \in Threads |-> [l[u] EXCEPT !.state = s]]

\* the attributes of self._state as thread t leaves them
set_state(l, t, s) == [l EXCEPT ![t].state = s]

----------------------------------------------------------------------------
(* __getitem__ step by step, as two threads run it on the shared _repos *)

\* a repository handle: backend.Repository(...) makes a new object at every
\* call, told apart here by the order of construction for the name
Handle(key, n) == <<key, n>>

\* what __getitem__ returns
RetHandle(h) == [kind |-> "handle", handle |-> h]

\* _repos = {} and no backend.Repository constructed
InitRegistry == [repos |-> EmptyMap, built |-> [k \in RepoKeys |-> 0]]

\* a thread that is not inside __getitem__
NotCalling == [key |-> None, at |-> "outside"]

\* no thread is inside __getitem__
InitCalling == [t \in Threads |-> NotCalling]

\* base.py:172-176: the tests of __getitem__ before the handle is constructed:
\* where the call goes on, or what it raises
getitem_lookup(cache, key) ==
    IF key \notin DOMAIN cache
    THEN IF key \in DOMAIN VERSIONS_REPOSITORIES
         THEN LET configs == VERSIONS_REPOSITORIES[key] IN
              IF "backend" \notin configs \/ "local" \notin configs
              THEN [at |-> "raise", exc |-> Raise("ImproperlyConfigured")]
              ELSE [at |-> "construct", exc |-> None]
         ELSE [at |-> "return", exc |-> None]
    ELSE [at |-> "return", exc |-> None]

\* base.py:177-178: load the backend, construct a Repository, store it
getitem_construct(reg, key) ==
    LET n == reg.built[key] + 1 IN
    [repos |-> Put(reg.repos, key, Handle(key, n)),
     built |-> [reg.built EXCEPT ![key] = n]]

\* base.py:179: return self._repos[key]
getitem_return(cache, key) ==
    IF key \in DOMAIN cache
    THEN [exc |-> None, ret |-> RetHandle(cache[key]), calls |-> <<>>]
    ELSE [exc |-> "KeyError", ret |-> RetNone, calls |-> <<>>]

----------------------------------------------------------------------------
(* Version: the wrapper of a backend commit *)

MaxParents == 3

\* the hex identifiers of the backend commits a Version is made of
Hexes == {"r0", "r1", "r2", "r3"}

\* sequences of at most n distinct members of a set
RECURSIVE DistinctSeqs(_, _)
DistinctSeqs(S, n) ==
    IF n = 0 THEN {<<>>}
    ELSE LET shorter == DistinctSeqs(S, n - 1)
             longer == UNION { { Append(q, x) : x \in S \ { q[i] : i \in DOMAIN q } } :
                               q \in shorter }
         IN shorter \cup longer

\* a backend commit object: hex() and parents(), the latter as the hex of each
BackendCommits ==
    { [hex |-> h, parents |-> ps] : h \in Hexes, ps \in DistinctSeqs(Hexes, MaxParents) }

\* Version.__init__ on a backend commit of the given hex
Version(hex) == [revision |-> hex]

\* Version.parents: a generator, as the sequence of what it will yield
parents(commit) == [i \in DOMAIN commit.parents |-> Version(commit.parents[i])]

\* generator.next(): the value and the generator left, or StopIteration
next(gen) ==
    IF gen = <<>>
    THEN [exc |-> "StopIteration", value |-> None, gen |-> gen]
    ELSE [exc |-> None, value |-> Head(gen), gen |-> Tail(gen)]

\* Version.parent that returns the first of several parents
parent_first_of_many(commit) ==
    LET first == next(parents(commit)) IN
    IF first.exc = "StopIteration"
    THEN [exc |-> None, ret |-> RetNone]
    ELSE [exc |-> None, ret |-> RetVersion(first.value)]

\* Version.parent
parent(commit) ==
    LET first == next(parents(commit)) IN
    IF first.exc = "StopIteration"
    THEN [exc |-> None, ret |-> RetNone]
    ELSE LET too_many == next(first.gen) IN
         IF too_many.exc = "StopIteration"
         THEN [exc |-> None, ret |-> RetVersion(first.value)]
         ELSE [exc |-> Raise("VersionsMultipleParents"), ret |-> RetNone]

MaxReads == 2

\* what _commit.user() of a backend commit returns: None, or the primary key
\* of a user that is in the users table or of one that is not
CommitUsers ==
    { [type |-> "NoneType"], [type |-> "int", pk |-> 1], [type |-> "int", pk |-> 2] }

\* the backend methods the properties of a Version call, none called yet
NoBackendCalls == [parents |-> 0, user |-> 0, description |-> 0]

\* one more call of a method of the backend commit
Called(backend, method) == [backend EXCEPT ![method] = @ + 1]

\* Version.user: dict is the __dict__ of the Version, val what _commit.user()
\* returns, and ipdb says whether the ipdb module of lines 279-280 can be
\* imported and its breakpoint is left
user(dict, val, ipdb) ==
    IF ~ipdb
    THEN [exc |-> "ImportError", ret |-> RetNone, dict |-> dict, fetched |-> FALSE]
    ELSE IF "_user" \in DOMAIN dict
    THEN [exc |-> None, ret |-> [kind |-> "user", value |-> dict._user], dict |-> dict,
          fetched |-> FALSE]
    ELSE IF val.type = "NoneType"
    THEN [exc |-> "AttributeError", ret |-> RetNone, dict |-> dict, fetched |-> TRUE]
    ELSE LET found == IF val.pk \in DOMAIN UsersByPk THEN UsersByPk[val.pk]
                      ELSE "AnonymousUser"
         IN [exc |-> None, ret |-> [kind |-> "user", value |-> found],
             dict |-> Put(dict, "_user", found), fetched |-> TRUE]

\* Version.message: _commit.description() of the backend commit
message(commit) == [kind |-> "description", of |-> commit.hex]

----------------------------------------------------------------------------
(* Version.__eq__ *)

\* a Version object as a Python value: its type and its revision attribute
VersionObject(hex) == [type |-> "Version", revision |-> Version(hex).revision]

\* values a Version is compared with: Versions, the revision as a str or a
\* unicode, None, and objects of another class that have a revision attribute
OtherValues ==
    { VersionObject(h) : h \in Hexes }
    \cup { [type |-> "str", value |-> h] : h \in Hexes }
    \cup { [type |-> "unicode", value |-> h] : h \in Hexes }
    \cup { [type |-> "NoneType"] }
    \cup { [type |-> "Changeset", revision |-> h] : h \in Hexes }

\* __eq__ that compares the revision attributes only
eq_by_revision(self, other) ==
    IF "revision" \in DOMAIN other THEN other.revision = self.revision ELSE FALSE

\* Version.__eq__: `and` reads other.revision only when the types are the same
eq(self, other) ==
    IF other.type = self.type THEN other.revision = self.revision ELSE FALSE

----------------------------------------------------------------------------
(* VersionsModel: a record of a versioned type and its database row *)

\* versions.constants, imported by models.py
VERSIONS_STATUS_PUBLISHED == "PUBLISHED"
VERSIONS_STATUS_DELETED == "DELETED"
VERSIONS_STATUS_STAGED_EDITS == "STAGED_EDITS"
VERSIONS_STATUS_STAGED_DELETE == "STAGED_DELETE"

\* the primary key of a record that has none: _get_pk_val() is None
NoPk == 0

\* Artist(name=n): a record not saved yet; _versions_status takes its default
\* and _versions_revision is None
NewRecord(n) ==
    [cls |-> "Artist", pk |-> NoPk, name |-> n,
     _versions_status |-> VERSIONS_STATUS_PUBLISHED]

\* the record as the instance handed to the RevisionManager
AsInstance(r) ==
    [cls |-> r.cls, pk |-> r.pk,
     fields |-> [id |-> r.pk, name |-> r.name, _versions_status |-> r._versions_status]]

\* the row models.Model.save writes for a record
Row(r) == [name |-> r.name, _versions_status |-> r._versions_status]

\* the primary key the database gives a new row
NextPk(d) == Cardinality(DOMAIN d) + 1

\* VersionsModel._save_base for a record without ForeignKey fields:
\* models.Model.save inserts the row of a new record, giving it its primary
\* key, and updates the row of a record that has one
save_base(r, d) ==
    LET is_new == r.pk = NoPk
        saved == IF is_new THEN [r EXCEPT !.pk = NextPk(d)] ELSE r
    IN [rec |-> saved, db |-> Put(d, saved.pk, Row(saved))]

\* _should_create_placeholder that asks for a placeholder every time
should_create_placeholder_always(r) == TRUE

\* VersionsModel._should_create_placeholder for a record that has a primary
\* key: the look-ups of lines 75-113 run only when it has none
should_create_placeholder(r) == r.pk = NoPk

\* VersionsModel.save that writes the row whatever the status
save_always_writing(r, d, s, rp, lg) ==
    LET based == save_base(r, d)
        staged == stage(s, rp, lg, AsInstance(based.rec), FALSE)
    IN [rec |-> based.rec, db |-> based.db, state |-> staged.state,
        repos |-> staged.repos, log |-> staged.log, exc |-> staged.exc,
        ret |-> RetNone, calls |-> staged.calls]

\* VersionsModel.save: the method has no return statement
save(r, d, s, rp, lg) ==
    LET based == IF \/ should_create_placeholder(r)
                    \/ r._versions_status \in {VERSIONS_STATUS_PUBLISHED,
                                               VERSIONS_STATUS_DELETED}
                 THEN save_base(r, d)
                 ELSE [rec |-> r, db |-> d]
        staged == stage(s, rp, lg, AsInstance(based.rec), FALSE)
    IN [rec |-> based.rec, db |-> based.db, state |-> staged.state,
        repos |-> staged.repos, log |-> staged.log, exc |-> staged.exc,
        ret |-> RetNone, calls |-> staged.calls]

\* VersionsModel.delete that leaves the status as it is
delete_keeping_status(r, d, s, rp, lg) == save(r, d, s, rp, lg)

\* VersionsModel.delete
delete(r, d, s, rp, lg) ==
    LET marked == IF r._versions_status \in {VERSIONS_STATUS_STAGED_EDITS,
                                             VERSIONS_STATUS_STAGED_DELETE}
                  THEN [r EXCEPT !._versions_status = VERSIONS_STATUS_STAGED_DELETE]
                  ELSE [r EXCEPT !._versions_status = VERSIONS_STATUS_DELETED]
    IN save(marked, d, s, rp, lg)

\* VersionsModel.commit that writes and stages the record with its status
commit_keeping_status(r, d, s, rp, lg) ==
    LET based == save_base(r, d)
        staged == stage(s, rp, lg, AsInstance(based.rec), FALSE)
    IN [rec |-> based.rec, db |-> based.db, state |-> staged.state,
        repos |-> staged.repos, log |-> staged.log, exc |-> staged.exc,
        ret |-> RetNone, calls |-> staged.calls]

\* VersionsModel.commit for a record without ManyToMany fields
commit(r, d, s, rp, lg) ==
    LET marked == IF r._versions_status = VERSIONS_STATUS_STAGED_DELETE
                  THEN [r EXCEPT !._versions_status = VERSIONS_STATUS_DELETED]
                  ELSE IF r._versions_status = VERSIONS_STATUS_STAGED_EDITS
                       THEN [r EXCEPT !._versions_status = VERSIONS_STATUS_PUBLISHED]
                       ELSE r
        based == save_base(marked, d)
        staged == stage(s, rp, lg, AsInstance(based.rec), FALSE)
    IN [rec |-> based.rec, db |-> based.db, state |-> staged.state,
        repos |-> staged.repos, log |-> staged.log, exc |-> staged.exc,
        ret |-> RetNone, calls |-> staged.calls]

\* VersionsModel.stage
stage_edits(r, d, s, rp, lg) ==
    save([r EXCEPT !._versions_status = VERSIONS_STATUS_STAGED_EDITS], d, s, rp, lg)

----------------------------------------------------------------------------
(* VersionsOptions and the snapshot of a record with relations *)

MaxIds == 2

\* primary keys of related records
Ids == 1..MaxIds

\* _meta.fields of Album: a primary key, a scalar field, a ForeignKey (kept
\* in __dict__ under its attname, artist_id) and the status
AlbumFields ==
    { [name |-> "id", attname |-> "id", primary_key |-> TRUE],
      [name |-> "title", attname |-> "title", primary_key |-> FALSE],
      [name |-> "artist", attname |-> "artist_id", primary_key |-> FALSE],
      [name |-> "_versions_status", attname |-> "_versions_status", primary_key |-> FALSE] }

\* __dict__ of an Album: its attributes by attname, and _versions_revision
AlbumDict ==
    [id |-> 1, title |-> "n1", artist_id |-> 1, _versions_status |-> "PUBLISHED",
     _versions_revision |-> None]

\* names a Versions class may list in include or exclude
ListedNames == {"id", "title", "artist", "_versions_status"}

\* VersionsOptions.contribute_to_class that accepts every exclude list
contribute_to_class_unchecked(include, exclude) ==
    [exc |-> None,
     options |-> [include |-> include, exclude |-> exclude,
                  core_include |-> {"_versions_status"}, repository |-> "default"]]

\* VersionsOptions.contribute_to_class: the _versions_options set on the type,
\* or the exception raised
contribute_to_class(include, exclude) ==
    LET invalid_excludes == {"_versions_status"} \cap exclude IN
    IF invalid_excludes # {}
    THEN [exc |-> "VersionsException", options |-> EmptyMap]
    ELSE [exc |-> None,
          options |-> [include |-> include, exclude |-> exclude,
                       core_include |-> {"_versions_status"}, repository |-> "default"]]

\* the Versions class of a type, or the relation `songs` of an Album and the
\* related_updates handed to data()
DataArguments ==
    { [include |-> i, exclude |-> e, current |-> {}, related_updates |-> EmptyMap] :
        i \in SUBSET ListedNames, e \in SUBSET ListedNames }
    \cup
    { [include |-> {}, exclude |-> {}, current |-> c,
       related_updates |-> [removed |-> [songs |-> r], added |-> [songs |-> a]]] :
        c \in SUBSET Ids, r \in SUBSET Ids, a \in SUBSET Ids }
    \cup
    { [include |-> {}, exclude |-> {}, current |-> c,
       related_updates |-> [added |-> [songs |-> a]]] :
        c \in SUBSET Ids, a \in SUBSET Ids }

----------------------------------------------------------------------------
(* RevisionManager.diff on two snapshots *)

\* repr(): the text of a value; equal values of the snapshots have equal texts
repr(value) == [text |-> value]

\* ''.join(difflib.unified_diff(a, b)): nothing for equal texts, else the
\* header and the hunks
unified_diff(a, b) == IF a = b THEN "" ELSE "--- +++ @@"

\* base.py:159-163: the difference of two snapshots, inst0 got from
\* version(instance, rev0) and inst1 from data(instance) or version(instance, rev1)
diff(inst0, inst1) ==
    LET keys == DOMAIN inst0 \cup DOMAIN inst1 IN
    [key \in keys |-> unified_diff(repr(Get(inst0, key, "")), repr(Get(inst1, key, "")))]

\* the snapshots diff() is given: with or without the title, with any status
\* and any ids of the relation
DiffSnapshots ==
    { [field |-> f, related |-> [songs |-> ids]] :
        f \in { [title |-> n, _versions_status |-> s] :
                  n \in Names, s \in {"PUBLISHED", "DELETED"} }
              \cup { [_versions_status |-> s] : s \in {"PUBLISHED", "DELETED"} },
        ids \in SUBSET Ids }

----------------------------------------------------------------------------
(* Initial state and the operations *)

\* the manager as `revision = RevisionManager()` leaves it, seen by one thread
InitManager ==
    /\ state = reset
    /\ repos = {}
    /\ log = [r \in RepoNames |-> <<>>]
    /\ scopes = <<>>
    /\ last = Call("init", None, Plain, 0, NoTxn)
    /\ txn = NoTxn

Init ==
    /\ InitManager
    /\ local = InitLocal
    /\ registry = InitRegistry
    /\ calling = InitCalling
    /\ ver = None
    /\ rec = None
    /\ db = EmptyMap
    /\ pure = None

\* revision.start()
Start ==
    /\ state.depth < MaxDepth
    /\ state' = start(state)
    /\ txn' = TxnStart(txn)
    /\ last' = Call("start", None, Plain, 0, NoTxn)
    /\ UNCHANGED ext
    /\ UNCHANGED <<repos, log, scopes>>

\* revision.invalidate()
Invalidate ==
    LET r == invalidate(state) IN
    /\ state' = r.state
    /\ txn' = TxnInvalidate(txn, "invalidate")
    /\ last' = Call("invalidate", None, [Plain EXCEPT !.exc = r.exc], 0, NoTxn)
    /\ UNCHANGED ext
    /\ UNCHANGED <<repos, log, scopes>>

\* revision.finish()
Finish ==
    \E order \in Orders(state.objects), fails \in SUBSET (DOMAIN state.objects) :
        LET r == finish(state, repos, log, order, fails) IN
        /\ TotalCommits(r.log) <= MaxCommits
        /\ state' = r.state
        /\ repos' = r.repos
        /\ log' = r.log
        /\ txn' = TxnFinish(txn)
        /\ last' = Call("finish", None, r, 1, txn)
        /\ UNCHANGED ext
        /\ UNCHANGED scopes

\* revision.stage(instance), for the instances of a set; whether the commit
\* raises is a choice only where a commit can be made, outside a transaction
StageOf(instances) ==
    \E instance \in instances, fail \in IF state.depth = 0 THEN BOOLEAN ELSE {FALSE} :
        LET r == stage(state, repos, log, instance, fail) IN
        /\ TotalCommits(r.log) <= MaxCommits
        /\ state' = r.state
        /\ repos' = r.repos
        /\ log' = r.log
        /\ txn' = TxnStage(txn, instance)
        /\ last' = Call("stage", instance, r, 0, NoTxn)
        /\ UNCHANGED ext
        /\ UNCHANGED scopes

\* revision.stage(instance) for any instance
Stage == StageOf(Instances)

\* revision.stage(instance) for one Artist and one Venue
StageFew == StageOf(FewInstances)

\* revision.user = val
SetUser ==
    \E val \in UserVals :
        /\ state' = set_user(state, val)
        /\ last' = Call("set_user", None, Plain, 0, NoTxn)
        /\ UNCHANGED ext
        /\ UNCHANGED <<repos, log, scopes, txn>>

\* revision.message = val
SetMessage ==
    \E val \in {"", "edit"} :
        /\ state' = set_message(state, val)
        /\ last' = Call("set_message", None, Plain, 0, NoTxn)
        /\ UNCHANGED ext
        /\ UNCHANGED <<repos, log, scopes, txn>>

\* `with revision:` is entered
WithEnter ==
    /\ Len(scopes) < MaxScopes
    /\ state.depth < MaxDepth
    /\ state' = enter(state)
    /\ scopes' = Append(scopes, "with")
    /\ txn' = TxnStart(txn)
    /\ last' = Call("enter", None, Plain, 0, NoTxn)
    /\ UNCHANGED ext
    /\ UNCHANGED <<repos, log>>

\* the block of `with revision:` ends, normally or by raising exc_type
WithExit ==
    \E exc_type \in {None} \cup BlockExceptions,
       order \in Orders(state.objects), fails \in SUBSET (DOMAIN state.objects) :
        LET r == exit(state, repos, log, exc_type, order, fails) IN
        /\ scopes # <<>>
        /\ scopes[Len(scopes)] = "with"
        /\ TotalCommits(r.log) <= MaxCommits
        /\ state' = r.state
        /\ repos' = r.repos
        /\ log' = r.log
        /\ scopes' = SubSeq(scopes, 1, Len(scopes) - 1)
        /\ txn' = TxnFinish(IF exc_type # None THEN TxnInvalidate(txn, "exit") ELSE txn)
        /\ last' = Call("exit", exc_type, r, r.finishes, txn)
        /\ UNCHANGED ext

\* a function wrapped by commit_on_success is called
DecoratorEnter ==
    /\ Len(scopes) < MaxScopes
    /\ state.depth < MaxDepth
    /\ state' = start(state)
    /\ scopes' = Append(scopes, "commit_on_success")
    /\ txn' = TxnStart(txn)
    /\ last' = Call("call", None, Plain, 0, NoTxn)
    /\ UNCHANGED ext
    /\ UNCHANGED <<repos, log>>

\* the wrapped function ends, normally or by raising
DecoratorExit ==
    \E raised \in {None} \cup BlockExceptions,
       order \in Orders(state.objects), fails \in SUBSET (DOMAIN state.objects) :
        LET r == commit_on_success(state, repos, log, raised, order, fails) IN
        /\ scopes # <<>>
        /\ scopes[Len(scopes)] = "commit_on_success"
        /\ TotalCommits(r.log) <= MaxCommits
        /\ state' = r.state
        /\ repos' = r.repos
        /\ log' = r.log
        /\ scopes' = SubSeq(scopes, 1, Len(scopes) - 1)
        /\ txn' = TxnFinish(IF raised # None THEN TxnInvalidate(txn, "commit_on_success") ELSE txn)
        /\ last' = Call("commit_on_success", raised, r, r.finishes, txn)
        /\ UNCHANGED ext

Next ==
    \/ Start
    \/ Invalidate
    \/ Finish
    \/ Stage

Spec == Init /\ [][Next]_vars

\* the same with the user and the message set, on fewer records
NextMeta ==
    \/ Start
    \/ Invalidate
    \/ Finish
    \/ StageFew
    \/ SetUser
    \/ SetMessage

SpecMeta == Init /\ [][NextMeta]_vars

\* the operations of a thread that uses the scope wrappers
NextScoped ==
    \/ Start
    \/ Invalidate
    \/ Finish
    \/ StageFew
    \/ WithEnter
    \/ WithExit
    \/ DecoratorEnter
    \/ DecoratorExit

SpecScoped == Init /\ [][NextScoped]_vars

----------------------------------------------------------------------------
(* Two threads on one manager *)

\* the manager with its thread-local state, before any thread called it
InitThreads == Init

\* what the calls of a thread leave alone
UnchangedByThreads ==
    UNCHANGED <<state, scopes, txn, registry, calling, ver, rec, db, pure>>

\* thread t calls revision.start()
ThreadStart(t) ==
    /\ state_of(local, t).depth < MaxDepth
    /\ local' = [set_state(local, t, start(state_of(local, t)))
                    EXCEPT ![t].txn = TxnStart(@)]
    /\ last' = Call("start", [thread |-> t], Plain, 0, local[t].txn)
    /\ UNCHANGED <<repos, log>>
    /\ UnchangedByThreads

\* thread t calls revision.invalidate()
ThreadInvalidate(t) ==
    LET r == invalidate(state_of(local, t)) IN
    /\ local' = [set_state(local, t, r.state)
                    EXCEPT ![t].txn = TxnInvalidate(@, "invalidate")]
    /\ last' = Call("invalidate", [thread |-> t], [Plain EXCEPT !.exc = r.exc], 0,
                    local[t].txn)
    /\ UNCHANGED <<repos, log>>
    /\ UnchangedByThreads

\* thread t calls revision.finish()
ThreadFinish(t) ==
    \E order \in Orders(state_of(local, t).objects) :
        LET r == finish(state_of(local, t), repos, log, order, {}) IN
        /\ TotalCommits(r.log) <= MaxCommits
        /\ local' = [set_state(local, t, r.state) EXCEPT ![t].txn = TxnFinish(@)]
        /\ repos' = r.repos
        /\ log' = r.log
        /\ last' = Call("finish", [thread |-> t], r, 1, local[t].txn)
        /\ UnchangedByThreads

\* thread t calls revision.stage(instance)
ThreadStage(t) ==
    \E instance \in ThreadInstances :
        LET r == stage(state_of(local, t), repos, log, instance, FALSE) IN
        /\ TotalCommits(r.log) <= MaxCommits
        /\ local' = [set_state(local, t, r.state)
                        EXCEPT ![t].txn = TxnStage(@, instance)]
        /\ repos' = r.repos
        /\ log' = r.log
        /\ last' = Call("stage", [thread |-> t, instance |-> instance], r, 0,
                        local[t].txn)
        /\ UnchangedByThreads

NextThreads ==
    \E t \in Threads :
        \/ ThreadStart(t)
        \/ ThreadInvalidate(t)
        \/ ThreadFinish(t)
        \/ ThreadStage(t)

SpecThreads == InitThreads /\ [][NextThreads]_vars

----------------------------------------------------------------------------
(* Two threads looking repositories up *)

\* what the steps of __getitem__ leave alone
UnchangedByGetItem ==
    UNCHANGED <<state, repos, log, scopes, txn, local, ver, rec, db, pure>>

\* thread t calls revision[key] and runs the tests of lines 172-176
GetItemLookup(t) ==
    \E key \in RepoKeys :
        LET r == getitem_lookup(registry.repos, key) IN
        /\ calling[t] = NotCalling
        /\ IF r.at = "raise"
           THEN /\ last' = Call("getitem", [thread |-> t, key |-> key],
                                [Plain EXCEPT !.exc = r.exc], 0, NoTxn)
                /\ UNCHANGED calling
           ELSE /\ calling' = [calling EXCEPT ![t] = [key |-> key, at |-> r.at]]
                /\ last' = Call("lookup", [thread |-> t, key |-> key], Plain, 0, NoTxn)
        /\ UNCHANGED registry
        /\ UnchangedByGetItem

\* thread t, having found no handle, constructs one and stores it
GetItemConstruct(t) ==
    /\ calling[t].at = "construct"
    /\ registry' = getitem_construct(registry, calling[t].key)
    /\ calling' = [calling EXCEPT ![t].at = "return"]
    /\ last' = Call("construct", [thread |-> t, key |-> calling[t].key], Plain, 0, NoTxn)
    /\ UnchangedByGetItem

\* thread t returns what _repos holds for the key
GetItemReturn(t) ==
    /\ calling[t].at = "return"
    /\ last' = Call("getitem", [thread |-> t, key |-> calling[t].key],
                    getitem_return(registry.repos, calling[t].key), 0, NoTxn)
    /\ calling' = [calling EXCEPT ![t] = NotCalling]
    /\ UNCHANGED registry
    /\ UnchangedByGetItem

NextRegistry ==
    \E t \in Threads :
        \/ GetItemLookup(t)
        \/ GetItemConstruct(t)
        \/ GetItemReturn(t)

SpecRegistry == Init /\ [][NextRegistry]_vars

----------------------------------------------------------------------------
(* The properties of a Version object are read *)

\* a Version made of any backend commit, nothing read yet
InitVersion ==
    /\ InitManager
    /\ local = InitLocal
    /\ registry = InitRegistry
    /\ calling = InitCalling
    /\ ver \in { [commit |-> c, commit_user |-> u, dict |-> EmptyMap,
                    backend |-> NoBackendCalls, op |-> "init", exc |-> None,
                    ret |-> RetNone] :
                   c \in { b \in BackendCommits : \A i \in DOMAIN b.parents : b.parents[i] # b.hex },
                   u \in CommitUsers }
    /\ rec = None
    /\ db = EmptyMap
    /\ pure = None

\* what reading a Version leaves alone
UnchangedByVersion ==
    UNCHANGED <<state, repos, log, scopes, last, txn, local, registry, calling, rec, db,
                pure>>

\* version.parent is read
ReadParent ==
    LET r == parent(ver.commit) IN
    /\ ver.backend.parents < MaxReads
    /\ ver' = [ver EXCEPT !.op = "parent", !.exc = r.exc, !.ret = r.ret,
                          !.backend = Called(@, "parents")]
    /\ UnchangedByVersion

\* list(version.parents) is read
ReadParents ==
    /\ ver.backend.parents < MaxReads
    /\ ver' = [ver EXCEPT !.op = "parents", !.exc = None,
                          !.ret = [kind |-> "list", items |-> parents(ver.commit)],
                          !.backend = Called(@, "parents")]
    /\ UnchangedByVersion

\* version.user is read
ReadUser ==
    \E ipdb \in BOOLEAN :
        LET r == user(ver.dict, ver.commit_user, ipdb) IN
        /\ ver.backend.user < MaxReads
        /\ ver' = [ver EXCEPT !.op = "user", !.exc = r.exc, !.ret = r.ret,
                              !.dict = r.dict,
                              !.backend = IF r.fetched THEN Called(@, "user") ELSE @]
        /\ UnchangedByVersion

\* version.message is read
ReadMessage ==
    /\ ver.backend.description < MaxReads
    /\ ver' = [ver EXCEPT !.op = "message", !.exc = None, !.ret = message(ver.commit),
                          !.backend = Called(@, "description")]
    /\ UnchangedByVersion

NextVersion ==
    \/ ReadParent
    \/ ReadParents
    \/ ReadUser
    \/ ReadMessage

SpecVersion == InitVersion /\ [][NextVersion]_vars

----------------------------------------------------------------------------
(* One record edited, saved, staged, deleted and committed *)

\* a new Artist in memory, an empty table and a manager nothing has used
InitRecord ==
    /\ InitManager
    /\ local = InitLocal
    /\ registry = InitRegistry
    /\ calling = InitCalling
    /\ ver = None
    /\ rec = NewRecord("n1")
    /\ db = EmptyMap
    /\ pure = None

\* what the methods of a record leave alone
UnchangedByRecord == UNCHANGED <<scopes, local, registry, calling, ver, pure>>

\* the outcome r of a method of the record is the next state
RecordCall(op, r) ==
    /\ TotalCommits(r.log) <= MaxCommits
    /\ rec' = r.rec
    /\ db' = r.db
    /\ state' = r.state
    /\ repos' = r.repos
    /\ log' = r.log
    /\ txn' = TxnStage(txn, AsInstance(r.rec))
    /\ last' = Call(op, rec, r, 0, NoTxn)
    /\ UnchangedByRecord

\* record.name = n
RecordEdit ==
    \E n \in Names :
        /\ n # rec.name
        /\ rec' = [rec EXCEPT !.name = n]
        /\ last' = Call("edit", rec, Plain, 0, NoTxn)
        /\ UNCHANGED <<state, repos, log, txn, db>>
        /\ UnchangedByRecord

\* record.save(), for a record that has a primary key
RecordSave ==
    /\ rec.pk # NoPk
    /\ RecordCall("save", save(rec, db, state, repos, log))

\* record.delete(), for a record that has a primary key
RecordDelete ==
    /\ rec.pk # NoPk
    /\ RecordCall("delete", delete(rec, db, state, repos, log))

\* record.commit()
RecordCommit == RecordCall("commit", commit(rec, db, state, repos, log))

\* record.stage(), for a record that has a primary key
RecordStage ==
    /\ rec.pk # NoPk
    /\ RecordCall("stage", stage_edits(rec, db, state, repos, log))

\* revision.start() and revision.finish() around the calls, not nested
RecordStart ==
    /\ state.depth = 0
    /\ Start
    /\ UNCHANGED <<rec, db>>

RecordFinish ==
    /\ \E order \in Orders(state.objects) :
         LET r == finish(state, repos, log, order, {}) IN
         /\ TotalCommits(r.log) <= MaxCommits
         /\ state' = r.state
         /\ repos' = r.repos
         /\ log' = r.log
         /\ txn' = TxnFinish(txn)
         /\ last' = Call("finish", rec, r, 1, txn)
    /\ UNCHANGED <<rec, db>>
    /\ UnchangedByRecord

NextRecord ==
    \/ RecordEdit
    \/ RecordSave
    \/ RecordDelete
    \/ RecordCommit
    \/ RecordStage
    \/ RecordStart
    \/ RecordFinish

SpecRecord == InitRecord /\ [][NextRecord]_vars

----------------------------------------------------------------------------
(* A type is registered and the snapshot of an instance computed *)

\* a Versions class and an Album, before the type is registered
InitData ==
    /\ InitManager
    /\ local = InitLocal
    /\ registry = InitRegistry
    /\ calling = InitCalling
    /\ ver = None
    /\ rec = None
    /\ db = EmptyMap
    /\ pure \in { [op |-> "init", args |-> a, options |-> EmptyMap, exc |-> None,
                   ret |-> RetNone] : a \in DataArguments }

\* what the methods that only compute leave alone
UnchangedByPure ==
    UNCHANGED <<state, repos, log, scopes, last, txn, local, registry, calling, ver, rec, db>>

\* the model class is created: Versions.contribute_to_class runs
ContributeToClass ==
    LET r == contribute_to_class(pure.args.include, pure.args.exclude) IN
    /\ pure.op = "init"
    /\ pure' = [pure EXCEPT !.op = "contribute_to_class", !.options = r.options,
                            !.exc = r.exc]
    /\ UnchangedByPure

\* revision.data(album, related_updates) on an instance of the registered type
Data ==
    /\ pure.op = "contribute_to_class"
    /\ pure.exc = None
    /\ pure' = [pure EXCEPT !.op = "data",
                            !.ret = RetData(data_of(AlbumFields, pure.options, AlbumDict,
                                                    [songs |-> pure.args.current],
                                                    pure.args.related_updates))]
    /\ UnchangedByPure

NextData ==
    \/ ContributeToClass
    \/ Data

SpecData == InitData /\ [][NextData]_vars

----------------------------------------------------------------------------
(* The difference of two snapshots is computed *)

\* two snapshots of one record
InitDiff ==
    /\ InitManager
    /\ local = InitLocal
    /\ registry = InitRegistry
    /\ calling = InitCalling
    /\ ver = None
    /\ rec = None
    /\ db = EmptyMap
    /\ pure \in { [op |-> "init", args |-> [inst0 |-> a, inst1 |-> b], exc |-> None,
                   ret |-> RetNone] : a \in DiffSnapshots, b \in DiffSnapshots }

\* revision.diff(instance, rev0, rev1), the snapshots of the revisions given
Diff ==
    /\ pure.op = "init"
    /\ pure' = [pure EXCEPT !.op = "diff",
                            !.ret = RetDict(diff(pure.args.inst0, pure.args.inst1))]
    /\ UnchangedByPure

NextDiff == Diff

SpecDiff == InitDiff /\ [][NextDiff]_vars

----------------------------------------------------------------------------
(* A Version is compared with a value *)

\* a Version and a value
InitEq ==
    /\ InitManager
    /\ local = InitLocal
    /\ registry = InitRegistry
    /\ calling = InitCalling
    /\ ver = None
    /\ rec = None
    /\ db = EmptyMap
    /\ pure \in { [op |-> "init", args |-> [self |-> VersionObject(h), other |-> o],
                   exc |-> None, ret |-> RetNone] : h \in Hexes, o \in OtherValues }

\* version == other
Eq ==
    /\ pure.op = "init"
    /\ pure' = [pure EXCEPT !.op = "eq",
                            !.ret = [kind |-> "bool",
                                     value |-> eq(pure.args.self, pure.args.other)]]
    /\ UnchangedByPure

NextEq == Eq

SpecEq == InitEq /\ [][NextEq]_vars

----------------------------------------------------------------------------
(* Properties of the transaction engine *)

\* the call just made was a finish() that closed the outermost level
OutermostFinish == last.op = "finish" /\ last.closed.nest = 1

\* the repositories named by the commit calls of the last call
CalledRepos == { last.calls[i].repo : i \in DOMAIN last.calls }

\* C1: a transaction in which invalidate() was called, at whatever depth,
\* ends at its outermost finish() without a commit: finish() raises nothing,
\* calls no repository's commit, leaves every history as it was, returns an
\* empty mapping, and leaves the state equal to a fresh RevisionState, from
\* which the next start()/stage()/finish() runs as from the initial state.
C1_InvalidatedTransactionCommitsNothing ==
    [][ (txn.nest = 1 /\ txn.invalidated /\ last'.op = "finish")
        => /\ last'.exc = None
           /\ last'.calls = <<>>
           /\ log' = log
           /\ last'.ret = RetDict(EmptyMap)
           /\ state' = reset
           /\ state'.depth = 0 /\ state'.objects = EmptyMap /\ ~state'.is_invalid ]_vars

\* C1 happens: an outermost finish() closed a transaction that had staged
\* items and had been invalidated while nested two deep or not
C1_Witness ==
    /\ OutermostFinish
    /\ last.closed.invalidated
    /\ last.closed.staged # EmptyMap
    /\ state = reset

\* C2: while a transaction is active, stage() makes no commit call and no
\* step that leaves the transaction active changes any history, so every
\* item's history is as long as it was when the transaction started.
C2_StageInTransactionNeverCommits ==
    [][ state.depth >= 1
        => /\ last'.op = "stage" => (last'.calls = <<>> /\ log' = log)
           /\ state'.depth >= 1 => log' = log ]_vars

\* C2 happens: a second item was staged in an active transaction that started
\* after a commit
C2_Witness ==
    /\ last.op = "stage"
    /\ state.depth >= 1
    /\ Cardinality(DOMAIN txn.staged) >= 2
    /\ TotalCommits(log) >= 1

\* C3: the outermost finish() of a transaction that was not invalidated, when
\* no commit raises, makes one commit call per repository with staged items,
\* each with exactly the item paths staged for that repository, calls no other
\* repository, adds one commit to each of these histories and none to the
\* others, and returns a mapping keyed by exactly these repositories.
C3_FlushCommitsEachDirtyRepositoryOnce ==
    [][ (txn.nest = 1 /\ ~txn.invalidated /\ last'.op = "finish" /\ last'.exc = None)
        => /\ last'.ret.kind = "dict"
           /\ DOMAIN last'.ret.items = StagedRepos(txn)
           /\ Len(last'.calls) = Cardinality(StagedRepos(txn))
           /\ \A r \in StagedRepos(txn) :
                /\ \E i \in DOMAIN last'.calls :
                     /\ last'.calls[i].repo = r
                     /\ DOMAIN last'.calls[i].items = StagedItems(txn, r)
                /\ Len(log'[r]) = Len(log[r]) + 1
                /\ DOMAIN log'[r][Len(log'[r])] = StagedItems(txn, r)
                /\ last'.ret.items[r].revision = Rev(r, Len(log'[r]))
           /\ \A i \in DOMAIN last'.calls : last'.calls[i].repo \in StagedRepos(txn)
           /\ \A r \in RepoNames \ StagedRepos(txn) : log'[r] = log[r] ]_vars

\* C3 happens: an outermost finish() flushed two repositories, one of them
\* with two items
C3_Witness ==
    /\ OutermostFinish
    /\ ~last.closed.invalidated
    /\ last.exc = None
    /\ Cardinality(StagedRepos(last.closed)) = 2
    /\ \E r \in RepoNames : Cardinality(StagedItems(last.closed, r)) = 2
    /\ Cardinality(DOMAIN last.ret.items) = 2

\* C4: the commit made by the outermost finish() holds, for every item staged
\* in the transaction, the snapshot of the last stage call for it, and the
\* item's history grows by exactly one revision.
C4_LastStagedSnapshotWins ==
    [][ (txn.nest = 1 /\ ~txn.invalidated /\ last'.op = "finish" /\ last'.exc = None)
        => \A k \in DOMAIN txn.staged :
             /\ Len(log'[k[1]]) = Len(log[k[1]]) + 1
             /\ log'[k[1]][Len(log'[k[1]])][k[2]] = txn.staged[k]
             /\ Cardinality(Versions(log', k[1], k[2]))
                  = Cardinality(Versions(log, k[1], k[2])) + 1 ]_vars

\* C4 happens: an item staged under one name and then under another was
\* committed by the outermost finish(), and the commit holds the second name
C4_Witness ==
    /\ OutermostFinish
    /\ last.exc = None
    /\ ~last.closed.invalidated
    /\ last.closed.overwritten # {}
    /\ \E k \in last.closed.overwritten :
         /\ Len(log[k[1]]) >= 1
         /\ deserialize(log[k[1]][Len(log[k[1]])][k[2]]) =
              deserialize(last.closed.staged[k])

\* C5: stage() with no active transaction makes one commit call, to the
\* object's repository, with the object's item alone; when the commit does not
\* raise, stage() returns the Version of that commit, the item's history is
\* one revision longer, every other history is as it was (so the commit is no
\* revision of another object), and the transaction state is as it was.
C5_SoloStageCommitsOnce ==
    [][ (state.depth = 0 /\ last'.op = "stage")
        => LET repo == repository_path(last'.arg.cls, last'.arg.pk)
               item == item_path(last'.arg.cls, last'.arg.pk)
               items == Put(EmptyMap, item, serialize(last'.arg))
           IN /\ last'.calls = <<[repo |-> repo, items |-> items]>>
              /\ last'.exc # None => log' = log
              /\ last'.exc = None =>
                   /\ log' = [log EXCEPT ![repo] = Append(@, items)]
                   /\ last'.ret = RetVersion([revision |-> Rev(repo, Len(log'[repo]))])
                   /\ Cardinality(Versions(log', repo, item))
                        = Cardinality(Versions(log, repo, item)) + 1
                   /\ \A i \in Instances :
                        item_path(i.cls, i.pk) # item =>
                          Versions(log', repository_path(i.cls, i.pk), item_path(i.cls, i.pk))
                            = Versions(log, repository_path(i.cls, i.pk), item_path(i.cls, i.pk))
              /\ state' = state ]_vars

\* C5 happens: two objects of one repository were each committed by a solo
\* stage(), in two revisions
C5_Witness ==
    /\ last.op = "stage"
    /\ state.depth = 0
    /\ last.ret.kind = "Version"
    /\ Len(log["default"]) = 2
    /\ DOMAIN log["default"][1] # DOMAIN log["default"][2]
    /\ Cardinality(DOMAIN log["default"][1]) = 1
    /\ Cardinality(DOMAIN log["default"][2]) = 1

\* C6: a finish() that leaves depth above 0 raises nothing, makes no commit
\* call, returns an empty mapping and changes nothing but depth, which it
\* lowers by one: the buffer, the user, the message, the invalid flag, the
\* histories and the cached handles are as before.
C6_InnerFinishOnlyLowersDepth ==
    [][ (state.depth >= 2 /\ last'.op = "finish")
        => /\ last'.exc = None
           /\ last'.calls = <<>>
           /\ last'.ret = RetDict(EmptyMap)
           /\ state' = [state EXCEPT !.depth = @ - 1]
           /\ state'.depth = state.depth - 1
           /\ log' = log
           /\ repos' = repos ]_vars

\* C6 happens: an inner finish() ran on an invalidated transaction with a
\* buffered item, a user and a message, all of which are still there
C6_Witness ==
    /\ last.op = "finish"
    /\ last.closed.nest = 2
    /\ state.depth = 1
    /\ state.objects # EmptyMap
    /\ state.user = "alice"
    /\ state.message = "edit"
    /\ state.is_invalid

\* the exception assert_active names
NotActiveError == "VersionsManagementException"

\* C7: finish() or invalidate() at depth 0 fails with the not-active error
\* and changes nothing: depth stays 0, the invalid flag stays false, no commit
\* call is made and no history changes.
C7_NotActiveErrorAtDepthZero ==
    [][ (state.depth = 0 /\ last'.op \in {"finish", "invalidate"})
        => /\ last'.exc = NotActiveError
           /\ state' = state
           /\ last'.calls = <<>>
           /\ log' = log ]_vars

\* what finish() and invalidate() do at depth 0: they raise, though not the
\* not-active error, and change nothing
C7_RaisesAndChangesNothing ==
    [][ (state.depth = 0 /\ last'.op \in {"finish", "invalidate"})
        => /\ last'.exc = "NameError"
           /\ state' = state
           /\ state'.depth = 0 /\ ~state'.is_invalid
           /\ last'.calls = <<>>
           /\ log' = log ]_vars

\* C8: a finish() that brings depth to 0 leaves the state at its defaults
\* (depth 0, empty buffer, no user, so the anonymous one, no message, so the
\* placeholder, invalid flag false), whether the flush succeeded, was skipped
\* for an invalidated transaction or an empty buffer, or a commit raised.
C8_OutermostFinishAlwaysResets ==
    [][ (state.depth = 1 /\ last'.op = "finish")
        => /\ state' = reset
           /\ state'.depth = 0
           /\ state'.objects = EmptyMap
           /\ get_user(state') = "AnonymousUser"
           /\ get_message(state') = "There was no commit message specified."
           /\ ~state'.is_invalid ]_vars

\* C8 happens: the outermost finish() of a transaction raised from a
\* repository's commit and the state is at its defaults
C8_Witness ==
    /\ OutermostFinish
    /\ last.exc = "StorageError"
    /\ last.calls # <<>>
    /\ last.closed.staged # EmptyMap
    /\ state = reset

\* the calls that end a scoped block
ScopeEnds == {"exit", "commit_on_success"}

\* C9 as stated: whenever the block of either wrapper raises, no commit is
\* made, finish() is called once, the transaction is marked invalid (or, at
\* the outermost level, reset) and the caller gets the block's exception.
C9_BlockExceptionAlwaysPropagates ==
    [][ (last'.op \in ScopeEnds /\ last'.arg # None)
        => /\ last'.exc = last'.arg
           /\ last'.finishes = 1
           /\ last'.calls = <<>>
           /\ log' = log ]_vars

\* C9, amended: when the block of either wrapper raises while a transaction
\* is still active (depth >= 1), the wrapper marks the transaction invalid,
\* calls finish() once, makes no commit, and the caller gets the exception
\* the block raised; that finish() resets the state at the outermost level
\* and otherwise leaves the transaction one level lower and invalid.
C9_BlockExceptionPropagatesWhileActive ==
    [][ (state.depth >= 1 /\ last'.op \in ScopeEnds /\ last'.arg # None)
        => /\ last'.exc = last'.arg
           /\ last'.finishes = 1
           /\ last'.calls = <<>>
           /\ log' = log
           /\ state.depth = 1 => state' = reset
           /\ state.depth > 1 =>
                state' = [state EXCEPT !.depth = @ - 1, !.is_invalid = TRUE] ]_vars

\* C9 happens: the block of a with statement raised at the outermost level,
\* with items staged, in a transaction no one had invalidated before, after a
\* block under commit_on_success had ended
C9_Witness ==
    /\ last.op = "exit"
    /\ last.arg \in BlockExceptions
    /\ last.exc = last.arg
    /\ last.closed.nest = 1
    /\ ~last.closed.invalidated
    /\ last.closed.staged # EmptyMap
    /\ state = reset
    /\ TotalCommits(log) >= 1

\* C10: once the invalid flag is set, it stays set for as long as depth stays
\* above 0, whatever is called, and the step that brings depth to 0 makes no
\* commit: also when the flag was set by the failure of an inner scoped block
\* and the enclosing block went on staging and ended normally.
C10_InvalidFlagSticksUntilReset ==
    [][ (state.is_invalid /\ state.depth >= 1)
        => /\ state'.depth >= 1 => state'.is_invalid
           /\ state'.depth = 0 => (last'.calls = <<>> /\ log' = log) ]_vars

\* C10 happens: an inner scoped block failed, the enclosing scoped block
\* ended normally at the outermost level with items staged, and nothing was
\* committed
C10_Witness ==
    /\ last.op \in ScopeEnds
    /\ last.arg = None
    /\ last.exc = None
    /\ last.closed.nest = 1
    /\ last.closed.invalidated
    /\ last.closed.by \in ScopeEnds
    /\ last.closed.staged # EmptyMap
    /\ last.calls = <<>>
    /\ TotalCommits(log) = 0
    /\ state = reset

----------------------------------------------------------------------------
(* Properties of two threads on one manager *)

\* the commit calls of a call are one per repository staged in transaction t,
\* each with the snapshots t staged for it
CommitsExactly(calls, t) ==
    /\ Len(calls) = Cardinality(StagedRepos(t))
    /\ \A r \in StagedRepos(t) :
         \E i \in DOMAIN calls :
            /\ calls[i].repo = r
            /\ DOMAIN calls[i].items = StagedItems(t, r)
            /\ \A item \in StagedItems(t, r) : calls[i].items[item] = t.staged[<<r, item>>]

\* C11: a call of one thread leaves the depth, buffer, user, message and
\* invalid flag the other thread sees as they were, and the outermost finish()
\* of a thread whose own transaction was not invalidated commits exactly the
\* snapshots that thread staged, whatever the other thread invalidated or
\* staged; a thread that invalidated its own transaction commits nothing.
C11_ThreadStateIsPerThread ==
    [][ \A t \in Threads :
          last'.arg.thread = t
          => /\ \A u \in Threads \ {t} : state_of(local', u) = state_of(local, u)
             /\ state_of(local', t).depth
                  = state_of(local, t).depth
                      + (CASE last'.exc # None -> 0
                           [] last'.op = "start" -> 1
                           [] last'.op = "finish" -> -1
                           [] OTHER -> 0)
             /\ (last'.op = "finish" /\ local[t].txn.nest = 1 /\ last'.exc = None)
                => IF local[t].txn.invalidated
                   THEN last'.calls = <<>>
                   ELSE CommitsExactly(last'.calls, local[t].txn) ]_vars

\* C11 happens: a thread's outermost finish() committed what it staged while
\* the other thread's transaction, invalidated and holding another item, is
\* still open
C11_Witness ==
    \E t \in Threads, u \in Threads :
        /\ t # u
        /\ last.op = "finish"
        /\ last.arg.thread = t
        /\ last.closed.nest = 1
        /\ ~last.closed.invalidated
        /\ last.closed.staged # EmptyMap
        /\ Len(last.calls) = 1
        /\ state_of(local, t) = reset
        /\ state_of(local, u).depth >= 1
        /\ state_of(local, u).is_invalid
        /\ local[u].txn.staged # EmptyMap
        /\ DOMAIN local[u].txn.staged # DOMAIN last.closed.staged

----------------------------------------------------------------------------
(* Properties of the repository registry *)

\* C12: for every repository name at most one handle is ever constructed,
\* and every revision[name] that returns gives that handle, also when two
\* threads look up a name that is not cached yet.
C12_OneHandlePerName ==
    /\ \A k \in RepoKeys : registry.built[k] <= 1
    /\ (last.op = "getitem" /\ last.exc = None)
       => last.ret = RetHandle(Handle(last.arg.key, 1))

\* C19: revision[name] for a name that is not configured, or whose
\* configuration lacks 'backend' or 'local', raises ImproperlyConfigured and
\* caches no handle for the name.
C19_BadNameRaisesImproperlyConfigured ==
    (last.op = "getitem" /\ last.arg.key \notin RepoNames)
    => /\ last.exc = "ImproperlyConfigured"
       /\ last.arg.key \notin DOMAIN registry.repos
       /\ registry.built[last.arg.key] = 0

\* what holds of C19: a name whose configuration lacks 'backend' or 'local'
\* raises ImproperlyConfigured; no bad name ever gets a handle
C19_IncompleteRaisesAndNothingIsCached ==
    /\ \A k \in RepoKeys \ RepoNames :
         k \notin DOMAIN registry.repos /\ registry.built[k] = 0
    /\ (last.op = "getitem" /\ last.arg.key \in DOMAIN VERSIONS_REPOSITORIES \ RepoNames)
       => last.exc = "ImproperlyConfigured"

----------------------------------------------------------------------------
(* Properties of Version *)

\* C14: Version.parent returns None when the backend commit has no parent,
\* the Version of the parent when it has exactly one, and raises
\* VersionsMultipleParents when it has two or more; it never returns one of
\* several parents.
C14_ParentIsNoneOneOrError ==
    ver.op = "parent"
    => LET n == Len(ver.commit.parents) IN
       /\ n = 0 => (ver.exc = None /\ ver.ret = RetNone)
       /\ n = 1 => (ver.exc = None
                    /\ ver.ret = RetVersion([revision |-> ver.commit.parents[1]]))
       /\ n >= 2 => (ver.exc = "VersionsMultipleParents" /\ ver.ret = RetNone)

\* C14 happens: parent was read on a Version whose commit has two parents
C14_Witness ==
    /\ ver.op = "parent"
    /\ Len(ver.commit.parents) = 2
    /\ ver.exc = "VersionsMultipleParents"

\* the Artist both threads save
Shared == Instance("Artist", 1, "n1")

----------------------------------------------------------------------------
(* Properties of reading the history *)

\* what version(instance, rev) gives the caller
Read(rp, lg, x, rev) ==
    LET r == version(rp, lg, x, rev) IN [exc |-> r.exc, ret |-> r.ret]

\* the snapshot, among those of the records, that a commit call recorded for x
Recorded(items, x) ==
    { data(inst) : inst \in { i \in Instances :
                                /\ i.cls = x.cls
                                /\ i.pk = x.pk
                                /\ items[item_path(x.cls, x.pk)] = serialize(i) } }

\* C15: version(item, rev) is the snapshot of the item as of rev. Every
\* revision that exists reads the same after a call that commits as before it; at the
\* revision of a new commit an item of the commit reads as the snapshot that
\* was staged for it and any other item reads as at the revision before; a
\* revision before the item's first commit raises VersionDoesNotExist; and
\* rev=None reads the tip.
C15_VersionReadsSnapshotAsOfRevision ==
    [][ log' # log
        =>
        \A x \in Instances :
          LET repo == repository_path(x.cls, x.pk)
              item == item_path(x.cls, x.pk)
              n == Len(log'[repo])
          IN /\ \A i \in 0..Len(log[repo]) :
                  Read(repos', log', x, Rev(repo, i)) = Read(repos, log, x, Rev(repo, i))
             /\ Read(repos', log', x, None) = Read(repos', log', x, Rev(repo, n))
             /\ \A i \in 0..n :
                  (\A j \in 1..i : item \notin DOMAIN log'[repo][j])
                  => Read(repos', log', x, Rev(repo, i)).exc = "VersionDoesNotExist"
             /\ n = Len(log[repo]) + 1
                => \E c \in DOMAIN last'.calls :
                     /\ last'.calls[c].repo = repo
                     /\ IF item \in DOMAIN last'.calls[c].items
                        THEN /\ Recorded(last'.calls[c].items, x) # {}
                             /\ Read(repos', log', x, Rev(repo, n)).exc = None
                             /\ Read(repos', log', x, Rev(repo, n)).ret
                                  \in { RetData(d) : d \in Recorded(last'.calls[c].items, x) }
                        ELSE Read(repos', log', x, Rev(repo, n))
                               = Read(repos, log, x, Rev(repo, n - 1)) ]_vars

\* C15 happens: Artist 1 was committed as n1 at revision 1, the next commit of
\* the repository holds Artist 2 only, and Artist 1 still reads as n1 at
\* revision 2 while Artist 2 does not exist at revision 1
C15_Witness ==
    LET a1 == Instance("Artist", 1, "n1")
        a2 == Instance("Artist", 2, "n1")
    IN /\ Len(log["default"]) = 2
       /\ DOMAIN log["default"][2] = {item_path("Artist", 2)}
       /\ last.op \in {"stage", "finish"}
       /\ Len(last.calls) = 1
       /\ Read(repos, log, a1, Rev("default", 1)).ret = RetData(data(a1))
       /\ Read(repos, log, a1, Rev("default", 2)).ret = RetData(data(a1))
       /\ Read(repos, log, a1, None).ret = RetData(data(a1))
       /\ Read(repos, log, a2, Rev("default", 1)).exc = "VersionDoesNotExist"
       /\ Read(repos, log, a2, Rev("default", 2)).ret = RetData(data(a2))

----------------------------------------------------------------------------
(* Properties of the record layer *)

\* the repository and the item path of the record
RecordRepo == repository_path("Artist", 1)

RecordItem == item_path("Artist", 1)

\* statuses of a record whose edits or deletion wait for commit()
StagedStatuses == {VERSIONS_STATUS_STAGED_EDITS, VERSIONS_STATUS_STAGED_DELETE}

\* statuses with which a snapshot says that the record is deleted
DeletedStatuses == {VERSIONS_STATUS_DELETED, VERSIONS_STATUS_STAGED_DELETE}

\* the read of the record at a revision finds no record: none was written yet,
\* or the snapshot has a deleted status
Absent(read) ==
    \/ read.exc = "VersionDoesNotExist"
    \/ /\ read.exc = None
       /\ read.ret.data.field._versions_status \in DeletedStatuses

\* C16: a save() outside any transaction that does not raise returns the
\* Version of the commit it made.
C16_SaveReturnsItsVersion ==
    (last.op = "save" /\ last.exc = None /\ Len(last.calls) = 1)
    => last.ret = RetVersion(Version(Rev(RecordRepo, Len(log[RecordRepo]))))

\* what holds of C16: a save() outside any transaction makes one commit, and
\* the record read at the revision of that commit has the field values the
\* record had at the save
C16_SaveCommitsTheRecord ==
    [][ (state.depth = 0 /\ last'.op = "save" /\ last'.exc = None)
        => /\ Len(log'[RecordRepo]) = Len(log[RecordRepo]) + 1
           /\ Read(repos', log', AsInstance(rec), Rev(RecordRepo, Len(log'[RecordRepo])))
                = [exc |-> None, ret |-> RetData(data(AsInstance(rec)))] ]_vars

\* C17: stage(), save() and delete() on a record whose status is staged, and
\* finish(), leave the database row as it is, while the snapshot they stage
\* or commit holds the record's edited values; commit() writes the row with
\* the edited values and the published or deleted status, so a staged delete
\* takes the record out of the published rows at commit() and not before.
C17_StagedEditsReachTheRowAtCommit ==
    [][ LET x == AsInstance(rec')
            tip == Read(repos', log', x, None)
        IN /\ last'.op = "stage"
              => /\ db' = db
                 /\ rec' = [rec EXCEPT !._versions_status = VERSIONS_STATUS_STAGED_EDITS]
                 /\ IF state.depth = 0
                    THEN tip = [exc |-> None, ret |-> RetData(data(x))]
                    ELSE state'.objects[RecordRepo][RecordItem] = serialize(x)
           /\ (last'.op \in {"save", "delete"} /\ rec._versions_status \in StagedStatuses)
              => /\ db' = db
                 /\ rec'._versions_status \in StagedStatuses
           /\ last'.op = "finish"
              => /\ db' = db
                 /\ last'.calls # <<>>
                    => tip = [exc |-> None,
                              ret |-> RetData(deserialize(txn.staged[<<RecordRepo, RecordItem>>]))]
           /\ last'.op = "commit"
              => /\ rec'._versions_status
                      = (CASE rec._versions_status = VERSIONS_STATUS_STAGED_EDITS
                                -> VERSIONS_STATUS_PUBLISHED
                           [] rec._versions_status = VERSIONS_STATUS_STAGED_DELETE
                                -> VERSIONS_STATUS_DELETED
                           [] OTHER -> rec._versions_status)
                 /\ db'[rec'.pk] = [name |-> rec.name,
                                    _versions_status |-> rec'._versions_status] ]_vars

\* C17 happens: the transaction that staged an edit has finished, the row has
\* the old name and the published status, and the tip has the new name
C17_Witness ==
    /\ last.op = "finish"
    /\ last.calls # <<>>
    /\ rec.pk = 1
    /\ rec._versions_status = VERSIONS_STATUS_STAGED_EDITS
    /\ db[1] = [name |-> "n1", _versions_status |-> VERSIONS_STATUS_PUBLISHED]
    /\ Read(repos, log, AsInstance(rec), None).exc = None
    /\ Read(repos, log, AsInstance(rec), None).ret.data.field.name = "n2"

----------------------------------------------------------------------------
(* Properties of the snapshot *)

\* the non-key fields of Album kept in __dict__ under their own name: the
\* scalar fields, not the ForeignKey
ScalarNames ==
    { f.name : f \in { g \in AlbumFields : ~g.primary_key /\ g.attname = g.name } }

C22_RelatedIdsAreCurrentLessRemovedPlusAdded ==
    pure.op = "data"
    => LET u == pure.args.related_updates
           removed == IF "removed" \in DOMAIN u THEN u.removed.songs ELSE {}
           added == IF "added" \in DOMAIN u THEN u.added.songs ELSE {}
           ids == pure.ret.data.related["songs"]
       IN /\ DOMAIN pure.ret.data.related = {"songs"}
          /\ \A i \in Ids :
               i \in ids <=> (i \in added \/ (i \in pure.args.current /\ i \notin removed))
          /\ ids \subseteq Ids
          /\ u = EmptyMap => ids = pure.args.current

\* C22 happens: an id of the relation was both removed and added, another was
\* removed only
C22_Witness ==
    /\ pure.op = "data"
    /\ pure.args.current = {1, 2}
    /\ pure.args.related_updates = [removed |-> [songs |-> {1, 2}], added |-> [songs |-> {1}]]
    /\ pure.ret.data.related["songs"] = {1}

\* the field and relation names of a snapshot, and the value of each
SnapshotNames(inst) == DOMAIN inst.field \cup DOMAIN inst.related

SnapshotValue(inst, name) ==
    IF name \in DOMAIN inst.field THEN [is |-> "field", value |-> inst.field[name]]
    ELSE IF name \in DOMAIN inst.related
         THEN [is |-> "related", value |-> inst.related[name]]
         ELSE [is |-> "missing", value |-> None]

\* C23: the result of diff is keyed by the field and relation names of the
\* two snapshots, and the entry of a name is empty exactly when the two
\* snapshots have the same value for it: no entry is non-empty for identical
\* snapshots, and only the entry of the changed field is when one differs.
C23_DiffKeyedByFieldNames ==
    pure.op = "diff"
    => LET a == pure.args.inst0
           b == pure.args.inst1
           d == pure.ret.items
       IN /\ DOMAIN d = SnapshotNames(a) \cup SnapshotNames(b)
          /\ \A name \in DOMAIN d :
               (d[name] = "") <=> (SnapshotValue(a, name) = SnapshotValue(b, name))

\* what holds of C23: the result has one entry for the fields together and
\* one for the relations together, each empty exactly when that part of the
\* two snapshots is the same
C23_DiffKeyedBySection ==
    pure.op = "diff"
    => LET a == pure.args.inst0
           b == pure.args.inst1
           d == pure.ret.items
       IN /\ DOMAIN d = {"field", "related"}
          /\ (d["field"] = "") <=> (a.field = b.field)
          /\ (d["related"] = "") <=> (a.related = b.related)

----------------------------------------------------------------------------
(* Properties of Version equality and caching *)

\* the revision identifier a value carries, if any
Carried(o) ==
    IF "revision" \in DOMAIN o THEN o.revision
    ELSE IF "value" \in DOMAIN o THEN o.value ELSE None

\* C24: a Version equals a value exactly when the value is a Version with the
\* same revision identifier; it equals no value of another type, whatever
\* revision identifier that value carries.
C24_EqualIffVersionsWithSameRevision ==
    pure.op = "eq"
    => /\ pure.ret.value
            <=> (pure.args.other.type = "Version"
                 /\ pure.args.other.revision = pure.args.self.revision)
       /\ pure.args.other.type # "Version" => ~pure.ret.value

\* C24 happens: a Version was compared with an object of another class that
\* has the same revision, and they are not equal
C24_Witness ==
    /\ pure.op = "eq"
    /\ pure.args.other.type = "Changeset"
    /\ Carried(pure.args.other) = pure.args.self.revision
    /\ ~pure.ret.value

----------------------------------------------------------------------------
(* Properties of the status of a record *)

\* the four values of _versions_status
Statuses ==
    {VERSIONS_STATUS_PUBLISHED, VERSIONS_STATUS_DELETED,
     VERSIONS_STATUS_STAGED_EDITS, VERSIONS_STATUS_STAGED_DELETE}

\* C25: stage() sets the status to STAGED_EDITS; delete() sets STAGED_DELETE
\* when the status is STAGED_EDITS or STAGED_DELETE and DELETED otherwise;
\* commit() turns STAGED_DELETE into DELETED and STAGED_EDITS into PUBLISHED
\* and leaves PUBLISHED and DELETED as they are. So after commit() the status
\* is PUBLISHED or DELETED and after delete() it is STAGED_DELETE or DELETED,
\* whatever the calls before.
C25_StatusTransitions ==
    [][ LET before == rec._versions_status
            after == rec'._versions_status
        IN /\ after \in Statuses
           /\ last'.op = "stage" => after = VERSIONS_STATUS_STAGED_EDITS
           /\ last'.op = "delete"
              => /\ after = (IF before \in StagedStatuses
                             THEN VERSIONS_STATUS_STAGED_DELETE
                             ELSE VERSIONS_STATUS_DELETED)
                 /\ after \in {VERSIONS_STATUS_STAGED_DELETE, VERSIONS_STATUS_DELETED}
           /\ last'.op = "commit"
              => /\ before = VERSIONS_STATUS_STAGED_DELETE
                    => after = VERSIONS_STATUS_DELETED
                 /\ before = VERSIONS_STATUS_STAGED_EDITS
                    => after = VERSIONS_STATUS_PUBLISHED
                 /\ before \in {VERSIONS_STATUS_PUBLISHED, VERSIONS_STATUS_DELETED}
                    => after = before
                 /\ after \in {VERSIONS_STATUS_PUBLISHED, VERSIONS_STATUS_DELETED} ]_vars

\* C25 happens: commit() was called on a record staged for deletion and the
\* record is now deleted
C25_Witness ==
    /\ last.op = "commit"
    /\ last.arg._versions_status = VERSIONS_STATUS_STAGED_DELETE
    /\ rec._versions_status = VERSIONS_STATUS_DELETED

----------------------------------------------------------------------------
(* Properties of the attributes of a Version *)

\* C27: each of parents/parent, user and message of a Version is fetched from
\* the backend commit at most once: no method of the backend commit is called
\* a second time for the same Version.
C27_BackendFetchedAtMostOnce ==
    \A method \in DOMAIN ver.backend : ver.backend[method] <= 1

\* what holds of C27: a user found for the commit is kept in _user, and a
\* read of user that finds _user returns it without a call of the backend
C27_UserIsKeptOnceFound ==
    [][ (ver'.op = "user" /\ "_user" \in DOMAIN ver.dict)
        => /\ ver'.backend = ver.backend
           /\ ver'.exc \in {None, "ImportError"}
           /\ ver'.exc = None => ver'.ret = [kind |-> "user", value |-> ver.dict._user] ]_vars

----------------------------------------------------------------------------
(* Properties of the transaction state between calls *)

\* C28: between the calls of one thread the depth is never negative, and at
\* depth 0 the buffer is empty and the invalid flag is false: a buffered
\* snapshot or a set invalid flag exists only while a transaction is active.
C28_IdleStateIsClean ==
    /\ state.depth >= 0
    /\ state.depth = 0 => (state.objects = EmptyMap /\ ~is_invalid(state))
    /\ (state.objects # EmptyMap \/ is_invalid(state)) => is_active(state)

\* C28 happens: a block that staged a snapshot raised and its wrapper closed
\* the transaction: depth is 0 again, the buffer empty and the flag false
C28_Witness ==
    /\ last.op \in ScopeEnds
    /\ last.arg # None
    /\ last.closed.nest = 1
    /\ last.closed.staged # EmptyMap
    /\ state.depth = 0
    /\ state.objects = EmptyMap
    /\ ~is_invalid(state)

\* the snapshots a transaction staged for a repository, by item
StagedFor(t, repo) == [item \in StagedItems(t, repo) |-> t.staged[<<repo, item>>]]

\* C29: when a repository's commit raises during the outermost finish() of a
\* transaction, finish() raises that error and returns nothing; each
\* repository is called at most once, the failing one last; the repositories
\* called before it keep the commit just made; the failing repository and the
\* repositories not yet called have the histories they had; and the state is
\* reset, so the snapshots not committed are gone from the buffer.
C29_FailedFlushKeepsEarlierCommits ==
    [][ (state.depth = 1 /\ last'.op = "finish" /\ last'.exc = "StorageError")
        => LET calls == last'.calls
               n == Len(calls)
               earlier == { calls[i].repo : i \in 1..(n - 1) }
           IN /\ n >= 1
              /\ last'.ret = RetNone
              /\ \A i, j \in 1..n : i # j => calls[i].repo # calls[j].repo
              /\ \A i \in 1..n :
                   /\ calls[i].repo \in StagedRepos(txn)
                   /\ calls[i].items = StagedFor(txn, calls[i].repo)
              /\ \A r \in earlier : log'[r] = Append(log[r], StagedFor(txn, r))
              /\ \A r \in RepoNames \ earlier : log'[r] = log[r]
              /\ state' = reset
              /\ state'.objects = EmptyMap ]_vars

\* C29 happens: a transaction staged items for two repositories, the first
\* repository flushed has its commit and the commit of the second raised
C29_Witness ==
    /\ OutermostFinish
    /\ last.exc = "StorageError"
    /\ Cardinality(StagedRepos(last.closed)) = 2
    /\ Len(last.calls) = 2
    /\ TotalCommits(log) = 1
    /\ state.objects = EmptyMap

\* C30: stage() outside a transaction leaves the whole transaction state as
\* it was: depth 0, the buffer empty, the user and the message as set; only
\* the setters and the outermost finish() change the user or the message, so
\* they last
\* over any number of solo commits; stage() inside a transaction changes the
\* buffer slot of the staged item and nothing else of the state.
C30_StageLeavesTheStateButOneSlot ==
    [][ /\ last'.op = "stage"
           => LET repo == repository_path(last'.arg.cls, last'.arg.pk)
                  item == item_path(last'.arg.cls, last'.arg.pk)
              IN IF state.depth = 0
                 THEN /\ state' = state
                      /\ state'.depth = 0
                      /\ state'.objects = EmptyMap
                      /\ get_user(state') = get_user(state)
                      /\ get_message(state') = get_message(state)
                 ELSE /\ state' = [state EXCEPT !.objects = state'.objects]
                      /\ DOMAIN state'.objects = DOMAIN state.objects \cup {repo}
                      /\ state'.objects[repo][item] = serialize(last'.arg)
                      /\ \A r \in DOMAIN state'.objects :
                           \A i \in DOMAIN state'.objects[r] :
                             <<r, i>> # <<repo, item>>
                             => /\ r \in DOMAIN state.objects
                                /\ i \in DOMAIN state.objects[r]
                                /\ state'.objects[r][i] = state.objects[r][i]
                      /\ \A r \in DOMAIN state.objects :
                           DOMAIN state.objects[r] \subseteq DOMAIN state'.objects[r]
        /\ (state'.user # state.user \/ state'.message # state.message)
           => \/ last'.op \in {"set_user", "set_message"}
              \/ last'.op = "finish" /\ state.depth = 1 ]_vars

\* C30 happens: with a user and a message set outside any transaction, two
\* solo stage() calls each made a commit, and the user and the message are
\* still the ones set
C30_Witness ==
    /\ last.op = "stage"
    /\ state.depth = 0
    /\ TotalCommits(log) = 2
    /\ state.user = "alice"
    /\ state.message = "edit"

====
